---- MODULE Spec2Model ----
(***************************************************************************)
(* Ticket inventory and reservation engine of the booking system: the      *)
(* in-memory Database (package database), its seat holds with lazy expiry, *)
(* its per-conference wait queues and its bookings.                        *)
(*                                                                         *)
(* Every Database method holds db.mutex for its whole body and is one      *)
(* action here, except GetReservation and GetUserReservations, which take  *)
(* the write lock for the purge, release it, and then take the read lock   *)
(* for the read: they are two actions each, with other threads' operations *)
(* and clock advances allowed in between.                                  *)
(*                                                                         *)
(* A method is modelled by two definitions: <Method>Err, the error it      *)
(* returns ("ok" when it returns none), and <Method>, what it does to the  *)
(* database.  The variable last holds what the latest observed call        *)
(* returned; it is written by the next-state relations, not by the methods.*)
(*                                                                         *)
(* Time is measured from the current instant: now is 0 and the instants    *)
(* stored in the database (ExpiresAt) are relative to it, so a clock tick   *)
(* of d seconds lowers every stored instant by d.  The comparisons keep    *)
(* the strictness of the source (After is >, Before is <), so the instant  *)
(* now = ExpiresAt is distinguished.  Fields the engine writes and never   *)
(* reads back (names, dates, CreatedAt, BookedAt, EnqueuedAt, the queue    *)
(* entry's own id) are left out.                                           *)
(***************************************************************************)
EXTENDS Integers, Sequences, FiniteSets, TLC

\* ---------------------------------------------------------------- bounds
MaxReservations == 2   \* reservations created in one run
MaxBookings == 2       \* bookings created in one run
MaxQueue == 3          \* entries held by all wait queues together

\* ------------------------------------------------------ program constants
HoldDuration == 15     \* time.Now().Add(15 * time.Second)

Conferences == {"conf-1", "conf-2"}          \* ids seeded by addSampleData
UnknownConference == "conf-x"                \* an id absent from db.Conferences
ConferenceIDs == Conferences \cup {UnknownConference}
UserIDs == {"u1", "u2"}
Threads == {"t1"}
SignupThreads == {"t1", "t2"}                \* concurrent sign-up requests
LockThreads == {"t1", "t2", "t3"}            \* request goroutines contending for db.mutex
Counts == {1, 2}                             \* ticket_count of a request
TickStep == HoldDuration \div 3              \* the clock advances 5 s at a time

\* addSampleData: the seeded capacities, scaled down (the source seeds 100, 75
\* and 150 tickets): two seats and a single seat
SampleTickets == [c \in Conferences |-> IF c = "conf-1" THEN 2 ELSE 1]

\* conference.Price, in cents
Price == [c \in Conferences |-> IF c = "conf-1" THEN 29999 ELSE 39999]

VARIABLES
    TotalTickets,      \* Conference.TotalTickets, per conference
    AvailableTickets,  \* Conference.AvailableTickets, per conference
    Bookings,          \* db.Bookings: set of booking records
    Reservations,      \* db.Reservations: set of seat-hold records
    WaitQueues,        \* db.WaitQueues: per conference id, a sequence of entries
    nextRes,           \* next fresh reservation id (uuid.New())
    nextBook,          \* next fresh booking id (uuid.New())
    pend,              \* per thread: the Get* call between its purge and its read
    Users,             \* db.Users: set of user records
    signup,            \* per request thread: the sign-up between its two calls
    mutex,             \* db.mutex: the writer that has called Lock, the readers inside
    pc,                \* per goroutine: the method it is in and the lock call it is at
    last               \* what the latest observed call returned

vars == <<TotalTickets, AvailableTickets, Bookings, Reservations,
          WaitQueues, nextRes, nextBook, pend, Users, signup, mutex, pc, last>>

\* ------------------------------------------------------------- helpers
\* time.Now(), the origin of the time axis
now == 0

\* t.After(u)
After(t, u) == t > u
\* t.Before(u)
Before(t, u) == t < u

\* sum of TicketCount over a set of reservations
RECURSIVE SumTicketCount(_)
SumTicketCount(S) ==
    IF S = {} THEN 0
    ELSE LET x == CHOOSE y \in S : TRUE IN x.TicketCount + SumTicketCount(S \ {x})

\* sum of TicketsBooked over a set of bookings
RECURSIVE SumTicketsBooked(_)
SumTicketsBooked(S) ==
    IF S = {} THEN 0
    ELSE LET x == CHOOSE y \in S : TRUE IN x.TicketsBooked + SumTicketsBooked(S \ {x})

\* db.Reservations[id], as a set (empty when the id is absent)
Lookup(res, id) == {r \in res : r.id = id}

\* cleanupExpiredReservationsLocked: delete every reservation with
\* now.After(reservation.ExpiresAt)
cleanupExpiredReservationsLocked(res) ==
    {r \in res : ~After(now, r.ExpiresAt)}

\* -------------------------------------------------------------- initial state
Idle == [op |-> "idle", id |-> 0, user |-> ""]
NoSignup == [op |-> "idle", email |-> <<>>]
NoCall == [op |-> "none", args |-> <<>>, err |-> "ok", pos |-> 0, ret |-> {}]
\* the zero value of sync.RWMutex, and a goroutine that is in no method
Unlocked == [w |-> "", readers |-> {}]
NotInCall == [op |-> "none", at |-> "idle", user |-> ""]

\* NewDatabase + addSampleData: empty maps, every seeded conference with
\* AvailableTickets = TotalTickets
Init ==
    /\ TotalTickets = SampleTickets
    /\ AvailableTickets = SampleTickets
    /\ Bookings = {}
    /\ Reservations = {}
    /\ WaitQueues = [c \in ConferenceIDs |-> <<>>]
    /\ nextRes = 1
    /\ nextBook = 1
    /\ pend = [t \in Threads |-> Idle]
    /\ Users = {}
    /\ signup = [t \in SignupThreads |-> NoSignup]
    /\ mutex = Unlocked
    /\ pc = [t \in LockThreads |-> NotInCall]
    /\ last = NoCall

\* an instant d seconds later, seen from the new now; an instant already in the
\* past is kept d seconds in the past (only its order to now is ever read)
Shift(t, d) == IF t < 0 THEN 0 - d ELSE t - d

\* the wall clock advances by d seconds
Tick(d) ==
    /\ Reservations' = {[r EXCEPT !.ExpiresAt = Shift(@, d)] : r \in Reservations}
    /\ UNCHANGED <<TotalTickets, AvailableTickets, Bookings, WaitQueues,
                   nextRes, nextBook, pend,
                   Users, signup>>

\* ------------------------------------------------------------ direct booking
NewBooking(id, userID, conferenceID, ticketCount, amount) ==
    [id |-> id, UserID |-> userID, ConferenceID |-> conferenceID,
     TicketsBooked |-> ticketCount, TotalAmount |-> amount,
     Status |-> "confirmed"]

\* a booking check that refuses the request that takes the last seats
CreateBookingErrKeepsOne(userID, conferenceID, ticketCount) ==
    IF conferenceID \notin Conferences THEN "NotFound"
    ELSE IF AvailableTickets[conferenceID] <= ticketCount THEN "InsufficientInventory"
    ELSE "ok"

CreateBookingErr(userID, conferenceID, ticketCount) ==
    IF conferenceID \notin Conferences THEN "NotFound"
    ELSE IF AvailableTickets[conferenceID] < ticketCount THEN "InsufficientInventory"
    ELSE "ok"

\* a booking that takes the seats of a known conference before it checks that
\* there are enough of them
CreateBookingChargesFirst(userID, conferenceID, ticketCount) ==
    IF CreateBookingErr(userID, conferenceID, ticketCount) = "NotFound"
    THEN UNCHANGED <<TotalTickets, AvailableTickets, Bookings, Reservations,
                     WaitQueues, nextRes, nextBook, pend,
                     Users, signup>>
    ELSE IF CreateBookingErr(userID, conferenceID, ticketCount) # "ok"
    THEN /\ AvailableTickets' =
                [AvailableTickets EXCEPT ![conferenceID] = @ - ticketCount]
         /\ UNCHANGED <<TotalTickets, Bookings, Reservations, WaitQueues,
                        nextRes, nextBook, pend,
                        Users, signup>>
    ELSE /\ AvailableTickets' =
                [AvailableTickets EXCEPT ![conferenceID] = @ - ticketCount]
         /\ Bookings' = Bookings \cup
                {NewBooking(nextBook, userID, conferenceID, ticketCount,
                            Price[conferenceID] * ticketCount)}
         /\ nextBook' = nextBook + 1
         /\ UNCHANGED <<TotalTickets, Reservations, WaitQueues, nextRes, pend,
                        Users, signup>>

CreateBooking(userID, conferenceID, ticketCount) ==
    IF CreateBookingErr(userID, conferenceID, ticketCount) # "ok"
    THEN UNCHANGED <<TotalTickets, AvailableTickets, Bookings, Reservations,
                     WaitQueues, nextRes, nextBook, pend,
                     Users, signup>>
    ELSE /\ AvailableTickets' =
                [AvailableTickets EXCEPT ![conferenceID] = @ - ticketCount]
         /\ Bookings' = Bookings \cup
                {NewBooking(nextBook, userID, conferenceID, ticketCount,
                            Price[conferenceID] * ticketCount)}
         /\ nextBook' = nextBook + 1
         /\ UNCHANGED <<TotalTickets, Reservations, WaitQueues, nextRes, pend,
                        Users, signup>>

\* ------------------------------------------------------------- reservations
NewReservation(id, userID, conferenceID, ticketCount, amount) ==
    [id |-> id, UserID |-> userID, ConferenceID |-> conferenceID,
     TicketCount |-> ticketCount, TotalAmount |-> amount,
     ExpiresAt |-> now + HoldDuration]

\* the duplicate check of CreateReservation: a reservation of the same user
\* and conference with time.Now().Before(reservation.ExpiresAt)
HasActiveReservation(res, userID, conferenceID) ==
    \E r \in res : /\ r.UserID = userID
                   /\ r.ConferenceID = conferenceID
                   /\ Before(now, r.ExpiresAt)

\* reservedTickets of CreateReservation: every reservation of the conference
\* left in the ledger by the purge, with no test of its expiry
reservedTickets(res, conferenceID) ==
    SumTicketCount({r \in res : r.ConferenceID = conferenceID})

\* a reservation check that compares the request with AvailableTickets alone
CreateReservationErrIgnoresHolds(userID, conferenceID, ticketCount) ==
    LET res == cleanupExpiredReservationsLocked(Reservations) IN
    IF conferenceID \notin Conferences THEN "NotFound"
    ELSE IF HasActiveReservation(res, userID, conferenceID)
         THEN "DuplicateActiveReservation"
    ELSE IF AvailableTickets[conferenceID] < ticketCount
         THEN "InsufficientInventory"
    ELSE "ok"

CreateReservationErr(userID, conferenceID, ticketCount) ==
    LET res == cleanupExpiredReservationsLocked(Reservations) IN
    IF conferenceID \notin Conferences THEN "NotFound"
    ELSE IF HasActiveReservation(res, userID, conferenceID)
         THEN "DuplicateActiveReservation"
    ELSE IF AvailableTickets[conferenceID] - reservedTickets(res, conferenceID)
               < ticketCount
         THEN "InsufficientInventory"
    ELSE "ok"

\* a reservation that takes its seats out of AvailableTickets at once
CreateReservationTakesSeats(userID, conferenceID, ticketCount) ==
    LET res == cleanupExpiredReservationsLocked(Reservations) IN
    IF CreateReservationErr(userID, conferenceID, ticketCount) # "ok"
    THEN /\ Reservations' = res
         /\ UNCHANGED <<TotalTickets, AvailableTickets, Bookings, WaitQueues,
                        nextRes, nextBook, pend,
                        Users, signup>>
    ELSE /\ Reservations' = res \cup
                {NewReservation(nextRes, userID, conferenceID, ticketCount,
                                Price[conferenceID] * ticketCount)}
         /\ AvailableTickets' =
                [AvailableTickets EXCEPT ![conferenceID] = @ - ticketCount]
         /\ nextRes' = nextRes + 1
         /\ UNCHANGED <<TotalTickets, Bookings, WaitQueues, nextBook, pend,
                        Users, signup>>

CreateReservation(userID, conferenceID, ticketCount) ==
    LET res == cleanupExpiredReservationsLocked(Reservations) IN
    IF CreateReservationErr(userID, conferenceID, ticketCount) # "ok"
    THEN /\ Reservations' = res
         /\ UNCHANGED <<TotalTickets, AvailableTickets, Bookings, WaitQueues,
                        nextRes, nextBook, pend,
                        Users, signup>>
    ELSE /\ Reservations' = res \cup
                {NewReservation(nextRes, userID, conferenceID, ticketCount,
                                Price[conferenceID] * ticketCount)}
         /\ nextRes' = nextRes + 1
         /\ UNCHANGED <<TotalTickets, AvailableTickets, Bookings, WaitQueues,
                        nextBook, pend,
                        Users, signup>>

\* the expiry test of ConfirmReservation: time.Now().After(reservation.ExpiresAt)
ConfirmExpired(r) == After(now, r.ExpiresAt)

ConfirmReservationErr(reservationID) ==
    IF Lookup(Reservations, reservationID) = {} THEN "NotFound"
    ELSE IF \E r \in Lookup(Reservations, reservationID) : ConfirmExpired(r)
         THEN "Expired"
    ELSE "ok"

\* a confirmation that takes one seat whatever the reservation holds
ConfirmReservationOneSeat(reservationID) ==
    LET found == Lookup(Reservations, reservationID)
        err == ConfirmReservationErr(reservationID)
    IN
    IF err = "NotFound"
    THEN UNCHANGED <<TotalTickets, AvailableTickets, Bookings, Reservations,
                     WaitQueues, nextRes, nextBook, pend,
                     Users, signup>>
    ELSE IF err = "Expired"
    THEN /\ Reservations' = Reservations \ found
         /\ UNCHANGED <<TotalTickets, AvailableTickets, Bookings, WaitQueues,
                        nextRes, nextBook, pend,
                        Users, signup>>
    ELSE LET reservation == CHOOSE r \in found : TRUE IN
         /\ AvailableTickets' =
                [AvailableTickets EXCEPT ![reservation.ConferenceID] = @ - 1]
         /\ Bookings' = Bookings \cup
                {NewBooking(nextBook, reservation.UserID, reservation.ConferenceID,
                            reservation.TicketCount, reservation.TotalAmount)}
         /\ Reservations' = Reservations \ found
         /\ nextBook' = nextBook + 1
         /\ UNCHANGED <<TotalTickets, WaitQueues, nextRes, pend,
                        Users, signup>>

\* a confirmation that rejects an expired reservation and leaves it in the
\* ledger
ConfirmReservationKeepsExpired(reservationID) ==
    LET found == Lookup(Reservations, reservationID)
        err == ConfirmReservationErr(reservationID)
    IN
    IF err # "ok"
    THEN UNCHANGED <<TotalTickets, AvailableTickets, Bookings, Reservations,
                     WaitQueues, nextRes, nextBook, pend,
                     Users, signup>>
    ELSE LET reservation == CHOOSE r \in found : TRUE IN
         /\ AvailableTickets' =
                [AvailableTickets EXCEPT ![reservation.ConferenceID] =
                                            @ - reservation.TicketCount]
         /\ Bookings' = Bookings \cup
                {NewBooking(nextBook, reservation.UserID, reservation.ConferenceID,
                            reservation.TicketCount, reservation.TotalAmount)}
         /\ Reservations' = Reservations \ found
         /\ nextBook' = nextBook + 1
         /\ UNCHANGED <<TotalTickets, WaitQueues, nextRes, pend,
                        Users, signup>>

\* a confirmation that stores the booking and leaves the reservation in the
\* ledger
ConfirmReservationKeepsHold(reservationID) ==
    LET found == Lookup(Reservations, reservationID)
        err == ConfirmReservationErr(reservationID)
    IN
    IF err = "NotFound"
    THEN UNCHANGED <<TotalTickets, AvailableTickets, Bookings, Reservations,
                     WaitQueues, nextRes, nextBook, pend,
                     Users, signup>>
    ELSE IF err = "Expired"
    THEN /\ Reservations' = Reservations \ found
         /\ UNCHANGED <<TotalTickets, AvailableTickets, Bookings, WaitQueues,
                        nextRes, nextBook, pend,
                        Users, signup>>
    ELSE LET reservation == CHOOSE r \in found : TRUE IN
         /\ AvailableTickets' =
                [AvailableTickets EXCEPT ![reservation.ConferenceID] =
                                            @ - reservation.TicketCount]
         /\ Bookings' = Bookings \cup
                {NewBooking(nextBook, reservation.UserID, reservation.ConferenceID,
                            reservation.TicketCount, reservation.TotalAmount)}
         /\ nextBook' = nextBook + 1
         /\ UNCHANGED <<TotalTickets, Reservations, WaitQueues, nextRes, pend,
                        Users, signup>>

ConfirmReservation(reservationID) ==
    LET found == Lookup(Reservations, reservationID)
        err == ConfirmReservationErr(reservationID)
    IN
    IF err = "NotFound"
    THEN UNCHANGED <<TotalTickets, AvailableTickets, Bookings, Reservations,
                     WaitQueues, nextRes, nextBook, pend,
                     Users, signup>>
    ELSE IF err = "Expired"
    THEN /\ Reservations' = Reservations \ found
         /\ UNCHANGED <<TotalTickets, AvailableTickets, Bookings, WaitQueues,
                        nextRes, nextBook, pend,
                        Users, signup>>
    ELSE LET reservation == CHOOSE r \in found : TRUE IN
         /\ AvailableTickets' =
                [AvailableTickets EXCEPT ![reservation.ConferenceID] =
                                            @ - reservation.TicketCount]
         /\ Bookings' = Bookings \cup
                {NewBooking(nextBook, reservation.UserID, reservation.ConferenceID,
                            reservation.TicketCount, reservation.TotalAmount)}
         /\ Reservations' = Reservations \ found
         /\ nextBook' = nextBook + 1
         /\ UNCHANGED <<TotalTickets, WaitQueues, nextRes, pend,
                        Users, signup>>

CancelReservationErr(reservationID) ==
    IF Lookup(Reservations, reservationID) = {} THEN "NotFound" ELSE "ok"

\* a cancellation that also sweeps the elapsed holds out of the ledger
CancelReservationPurges(reservationID) ==
    IF CancelReservationErr(reservationID) # "ok"
    THEN UNCHANGED <<TotalTickets, AvailableTickets, Bookings, Reservations,
                     WaitQueues, nextRes, nextBook, pend,
                     Users, signup>>
    ELSE /\ Reservations' = cleanupExpiredReservationsLocked(Reservations)
                               \ Lookup(Reservations, reservationID)
         /\ UNCHANGED <<TotalTickets, AvailableTickets, Bookings, WaitQueues,
                        nextRes, nextBook, pend,
                        Users, signup>>

\* a cancellation that also takes back what the user bought for the conference
CancelReservationRefunds(reservationID) ==
    IF CancelReservationErr(reservationID) # "ok"
    THEN UNCHANGED <<TotalTickets, AvailableTickets, Bookings, Reservations,
                     WaitQueues, nextRes, nextBook, pend,
                     Users, signup>>
    ELSE /\ Reservations' = Reservations \ Lookup(Reservations, reservationID)
         /\ Bookings' =
               {b \in Bookings :
                   ~ \E r \in Lookup(Reservations, reservationID) :
                        b.UserID = r.UserID /\ b.ConferenceID = r.ConferenceID}
         /\ UNCHANGED <<TotalTickets, AvailableTickets, WaitQueues,
                        nextRes, nextBook, pend,
                        Users, signup>>

CancelReservation(reservationID) ==
    IF CancelReservationErr(reservationID) # "ok"
    THEN UNCHANGED <<TotalTickets, AvailableTickets, Bookings, Reservations,
                     WaitQueues, nextRes, nextBook, pend,
                     Users, signup>>
    ELSE /\ Reservations' = Reservations \ Lookup(Reservations, reservationID)
         /\ UNCHANGED <<TotalTickets, AvailableTickets, Bookings, WaitQueues,
                        nextRes, nextBook, pend,
                        Users, signup>>

\* BookingApp.CancelReservation, the HTTP handler: the request carries the
\* reservation id and nothing about the user who sends it
CancelReservationBy(caller, reservationID) == CancelReservation(reservationID)

\* --------------------------------------------- purge-then-read (two sections)
\* db.cleanupExpiredReservations(): the purge, in a critical section of its own
cleanupExpiredReservations ==
    /\ Reservations' = cleanupExpiredReservationsLocked(Reservations)
    /\ UNCHANGED <<TotalTickets, AvailableTickets, Bookings, WaitQueues,
                   nextRes, nextBook,
                   Users, signup>>

\* GetReservation, first critical section
GetReservationPurge(t, reservationID) ==
    /\ pend[t] = Idle
    /\ cleanupExpiredReservations
    /\ pend' = [pend EXCEPT ![t] = [op |-> "GetReservation", id |-> reservationID,
                                    user |-> ""]]

\* GetReservation, the read under RLock: what it returns
GetReservationRet(t) == Lookup(Reservations, pend[t].id)
GetReservationErr(t) == IF GetReservationRet(t) = {} THEN "NotFound" ELSE "ok"

\* GetReservation, second critical section
GetReservationRead(t) ==
    /\ pend[t].op = "GetReservation"
    /\ pend' = [pend EXCEPT ![t] = Idle]
    /\ UNCHANGED <<TotalTickets, AvailableTickets, Bookings, Reservations,
                   WaitQueues, nextRes, nextBook,
                   Users, signup>>

\* GetUserReservations, first critical section
GetUserReservationsPurge(t, userID) ==
    /\ pend[t] = Idle
    /\ cleanupExpiredReservations
    /\ pend' = [pend EXCEPT ![t] = [op |-> "GetUserReservations", id |-> 0,
                                    user |-> userID]]

\* GetUserReservations, the read under RLock: what it returns
GetUserReservationsRet(t) == {r \in Reservations : r.UserID = pend[t].user}

\* GetUserReservations, second critical section
GetUserReservationsRead(t) ==
    /\ pend[t].op = "GetUserReservations"
    /\ pend' = [pend EXCEPT ![t] = Idle]
    /\ UNCHANGED <<TotalTickets, AvailableTickets, Bookings, Reservations,
                   WaitQueues, nextRes, nextBook,
                   Users, signup>>

\* ----------------------------------------------------------------- wait queue
NewWaitEntry(userID, conferenceID, ticketCount) ==
    [UserID |-> userID, ConferenceID |-> conferenceID, TicketCount |-> ticketCount]

\* GetQueuePosition: 1-based index of the user's first entry, 0 when absent
GetQueuePosition(queues, userID, conferenceID) ==
    LET q == queues[conferenceID]
        hits == {i \in 1..Len(q) : q[i].UserID = userID}
    IN IF hits = {} THEN 0
       ELSE CHOOSE i \in hits : \A j \in hits : i <= j

\* EnqueueWait: the 1-based position it returns
EnqueueWaitPos(userID, conferenceID) ==
    LET i == GetQueuePosition(WaitQueues, userID, conferenceID) IN
    IF i # 0 THEN i ELSE Len(WaitQueues[conferenceID]) + 1

\* an enqueue that puts a new entry at the front of the queue
EnqueueWaitAtFront(userID, conferenceID, ticketCount) ==
    LET q == WaitQueues[conferenceID]
        i == GetQueuePosition(WaitQueues, userID, conferenceID)
    IN
    /\ WaitQueues' =
          IF i # 0
          THEN [WaitQueues EXCEPT ![conferenceID][i].TicketCount = ticketCount]
          ELSE [WaitQueues EXCEPT ![conferenceID] =
                    <<NewWaitEntry(userID, conferenceID, ticketCount)>> \o q]
    /\ UNCHANGED <<TotalTickets, AvailableTickets, Bookings, Reservations,
                   nextRes, nextBook, pend,
                   Users, signup>>

\* an enqueue that appends a new entry even when the user is already queued
EnqueueWaitAlwaysAppends(userID, conferenceID, ticketCount) ==
    LET q == WaitQueues[conferenceID] IN
    /\ WaitQueues' =
          [WaitQueues EXCEPT ![conferenceID] =
               Append(q, NewWaitEntry(userID, conferenceID, ticketCount))]
    /\ UNCHANGED <<TotalTickets, AvailableTickets, Bookings, Reservations,
                   nextRes, nextBook, pend,
                   Users, signup>>

\* an enqueue that moves a user who asks again to the back of the queue
EnqueueWaitMovesToBack(userID, conferenceID, ticketCount) ==
    LET q == WaitQueues[conferenceID]
        others == SelectSeq(q, LAMBDA e : e.UserID # userID)
    IN
    /\ WaitQueues' =
          [WaitQueues EXCEPT ![conferenceID] =
               Append(others, NewWaitEntry(userID, conferenceID, ticketCount))]
    /\ UNCHANGED <<TotalTickets, AvailableTickets, Bookings, Reservations,
                   nextRes, nextBook, pend,
                   Users, signup>>

EnqueueWait(userID, conferenceID, ticketCount) ==
    LET q == WaitQueues[conferenceID]
        i == GetQueuePosition(WaitQueues, userID, conferenceID)
    IN
    /\ WaitQueues' =
          IF i # 0
          THEN [WaitQueues EXCEPT ![conferenceID][i].TicketCount = ticketCount]
          ELSE [WaitQueues EXCEPT ![conferenceID] =
                    Append(q, NewWaitEntry(userID, conferenceID, ticketCount))]
    /\ UNCHANGED <<TotalTickets, AvailableTickets, Bookings, Reservations,
                   nextRes, nextBook, pend,
                   Users, signup>>

\* reserved of ClaimNext: reservations of the conference with now.Before(ExpiresAt)
reserved(res, conferenceID) ==
    SumTicketCount({r \in res : /\ r.ConferenceID = conferenceID
                                /\ Before(now, r.ExpiresAt)})

\* a claim check that lets any caller take the head's turn
ClaimNextErrAnyCaller(userID, conferenceID) ==
    LET res == cleanupExpiredReservationsLocked(Reservations)
        q == WaitQueues[conferenceID]
    IN
    IF Len(q) = 0 THEN "NotYourTurn"
    ELSE IF conferenceID \notin Conferences THEN "NotFound"
    ELSE IF AvailableTickets[conferenceID] - reserved(res, conferenceID)
               < q[1].TicketCount
         THEN "InsufficientInventory"
    ELSE "ok"

\* a claim check that compares the head's count with AvailableTickets alone
ClaimNextErrIgnoresHolds(userID, conferenceID) ==
    LET q == WaitQueues[conferenceID] IN
    IF Len(q) = 0 \/ q[1].UserID # userID THEN "NotYourTurn"
    ELSE IF conferenceID \notin Conferences THEN "NotFound"
    ELSE IF AvailableTickets[conferenceID] < q[1].TicketCount
         THEN "InsufficientInventory"
    ELSE "ok"

ClaimNextErr(userID, conferenceID) ==
    LET res == cleanupExpiredReservationsLocked(Reservations)
        q == WaitQueues[conferenceID]
    IN
    IF Len(q) = 0 \/ q[1].UserID # userID THEN "NotYourTurn"
    ELSE IF conferenceID \notin Conferences THEN "NotFound"
    ELSE IF AvailableTickets[conferenceID] - reserved(res, conferenceID)
               < q[1].TicketCount
         THEN "InsufficientInventory"
    ELSE "ok"

\* a claim that drops the head of the queue when it fails at the head
ClaimNextDropsHead(userID, conferenceID) ==
    LET res == cleanupExpiredReservationsLocked(Reservations)
        q == WaitQueues[conferenceID]
        err == ClaimNextErr(userID, conferenceID)
    IN
    IF err = "NotYourTurn"
    THEN /\ Reservations' = res
         /\ UNCHANGED <<TotalTickets, AvailableTickets, Bookings, WaitQueues,
                        nextRes, nextBook, pend,
                        Users, signup>>
    ELSE IF err # "ok"
    THEN /\ Reservations' = res
         /\ WaitQueues' = [WaitQueues EXCEPT ![conferenceID] = Tail(q)]
         /\ UNCHANGED <<TotalTickets, AvailableTickets, Bookings,
                        nextRes, nextBook, pend,
                        Users, signup>>
    ELSE LET need == q[1].TicketCount IN
         /\ Reservations' = res \cup
                {NewReservation(nextRes, userID, conferenceID, need,
                                Price[conferenceID] * need)}
         /\ WaitQueues' = [WaitQueues EXCEPT ![conferenceID] = Tail(q)]
         /\ nextRes' = nextRes + 1
         /\ UNCHANGED <<TotalTickets, AvailableTickets, Bookings, nextBook, pend,
                        Users, signup>>

\* a claim that creates the reservation and leaves the head in the queue
ClaimNextKeepsHead(userID, conferenceID) ==
    LET res == cleanupExpiredReservationsLocked(Reservations)
        q == WaitQueues[conferenceID]
    IN
    IF ClaimNextErr(userID, conferenceID) # "ok"
    THEN /\ Reservations' = res
         /\ UNCHANGED <<TotalTickets, AvailableTickets, Bookings, WaitQueues,
                        nextRes, nextBook, pend,
                        Users, signup>>
    ELSE LET need == q[1].TicketCount IN
         /\ Reservations' = res \cup
                {NewReservation(nextRes, userID, conferenceID, need,
                                Price[conferenceID] * need)}
         /\ nextRes' = nextRes + 1
         /\ UNCHANGED <<TotalTickets, AvailableTickets, Bookings, WaitQueues,
                        nextBook, pend,
                        Users, signup>>

ClaimNext(userID, conferenceID) ==
    LET res == cleanupExpiredReservationsLocked(Reservations)
        q == WaitQueues[conferenceID]
    IN
    IF ClaimNextErr(userID, conferenceID) # "ok"
    THEN /\ Reservations' = res
         /\ UNCHANGED <<TotalTickets, AvailableTickets, Bookings, WaitQueues,
                        nextRes, nextBook, pend,
                        Users, signup>>
    ELSE LET need == q[1].TicketCount IN
         /\ Reservations' = res \cup
                {NewReservation(nextRes, userID, conferenceID, need,
                                Price[conferenceID] * need)}
         /\ WaitQueues' = [WaitQueues EXCEPT ![conferenceID] = Tail(q)]
         /\ nextRes' = nextRes + 1
         /\ UNCHANGED <<TotalTickets, AvailableTickets, Bookings, nextBook, pend,
                        Users, signup>>

\* GetConferenceStats: per conference, the tickets of reservations with
\* now.Before(ExpiresAt) and the queue length
GetConferenceStats ==
    [c \in Conferences |->
        [Reserved |-> SumTicketCount({r \in Reservations :
                                         /\ r.ConferenceID = c
                                         /\ Before(now, r.ExpiresAt)}),
         Queue |-> Len(WaitQueues[c])]]

\* ----------------------------------------------------------------------- users
\* an email is a sequence of characters; the addresses that requests carry
Emails ==
    { <<"T", "@", "x">>, <<"t", "@", "x">>, <<" ", "t", "@", "x", " ">>,
      <<"b", "@", "x">> }

\* strings.ToLower, one character
LowerChar(ch) ==
    IF ch = "T" THEN "t" ELSE IF ch = "B" THEN "b" ELSE IF ch = "X" THEN "x" ELSE ch

\* strings.ToLower
ToLower(str) == [i \in 1..Len(str) |-> LowerChar(str[i])]

\* strings.TrimSpace: leading and trailing white space removed
RECURSIVE TrimLeft(_)
TrimLeft(str) ==
    IF str = <<>> THEN str
    ELSE IF Head(str) = " " THEN TrimLeft(Tail(str)) ELSE str
RECURSIVE TrimRight(_)
TrimRight(str) ==
    IF str = <<>> THEN str
    ELSE IF str[Len(str)] = " " THEN TrimRight(SubSeq(str, 1, Len(str) - 1))
    ELSE str
TrimSpace(str) == TrimRight(TrimLeft(str))

\* norm := strings.ToLower(strings.TrimSpace(email))
NormalizeEmail(email) == ToLower(TrimSpace(email))

\* GetUserByEmail: the users whose email matches, case and white space aside
GetUserByEmail(email) ==
    {user \in Users : NormalizeEmail(user.Email) = NormalizeEmail(email)}

\* CreateUser compares raw addresses
CreateUserErrRaw(email) ==
    IF \E user \in Users : user.Email = email
    THEN "DuplicateContact" ELSE "ok"

CreateUserErr(email) ==
    IF \E user \in Users : NormalizeEmail(user.Email) = NormalizeEmail(email)
    THEN "DuplicateContact" ELSE "ok"

\* Database.CreateUser, one critical section: the check and the insert
CreateUser(email) ==
    /\ Users' = IF CreateUserErr(email) # "ok" THEN Users
                ELSE Users \cup {[id |-> Cardinality(Users) + 1,
                                  Email |-> NormalizeEmail(email)]}
    /\ UNCHANGED <<TotalTickets, AvailableTickets, Bookings, Reservations,
                   WaitQueues, nextRes, nextBook, pend>>

\* BookingApp.CreateUser, the HTTP handler, first call: GetUserByEmail under
\* RLock; a match is answered with 409 and the request ends
CreateUserLookup(t, email) ==
    /\ signup[t] = NoSignup
    /\ signup' = IF GetUserByEmail(email) # {} THEN signup
                 ELSE [signup EXCEPT ![t] = [op |-> "CreateUser", email |-> email]]
    /\ UNCHANGED <<TotalTickets, AvailableTickets, Bookings, Reservations,
                   WaitQueues, nextRes, nextBook, pend, Users>>

\* BookingApp.CreateUser, second call: db.CreateUser
CreateUserStore(t) ==
    /\ signup[t].op = "CreateUser"
    /\ CreateUser(signup[t].email)
    /\ signup' = [signup EXCEPT ![t] = NoSignup]

\* ------------------------------------------------------------------ db.mutex
\* A method call seen at the grain of its calls on db.mutex (sync.RWMutex).
\* mutex.w is the goroutine that has called Lock and not yet Unlock: from that
\* moment an RLock blocks, and the writer runs once the readers that were
\* inside have left.  pc[t].at is where goroutine t stands: "Lock" and "RLock"
\* before the call, "LockWait" and "RLockWait" blocked inside it, "Locked"
\* and "RLocked" inside the critical section.

\* db.mutex.Lock(): the goroutine takes the writer slot when it is free
mutexLock(t) ==
    /\ pc[t].at = "Lock"
    /\ mutex.w = ""
    /\ mutex' = [mutex EXCEPT !.w = t]
    /\ pc' = [pc EXCEPT ![t].at = "LockWait"]
    /\ UNCHANGED <<TotalTickets, AvailableTickets, Bookings, Reservations,
                   WaitQueues, nextRes, nextBook, pend, Users, signup>>

\* db.mutex.Lock() returns: the readers that were inside have left
mutexLocked(t) ==
    /\ pc[t].at = "LockWait"
    /\ mutex.readers = {}
    /\ pc' = [pc EXCEPT ![t].at = "Locked"]
    /\ UNCHANGED <<TotalTickets, AvailableTickets, Bookings, Reservations,
                   WaitQueues, nextRes, nextBook, pend, Users, signup, mutex>>

\* db.mutex.RLock(): the goroutine enters unless a writer has called Lock, and
\* then it blocks until that writer's Unlock
mutexRLock(t) ==
    /\ pc[t].at = "RLock"
    /\ IF mutex.w = ""
       THEN /\ mutex' = [mutex EXCEPT !.readers = @ \cup {t}]
            /\ pc' = [pc EXCEPT ![t].at = "RLocked"]
       ELSE /\ mutex' = mutex
            /\ pc' = [pc EXCEPT ![t].at = "RLockWait"]
    /\ UNCHANGED <<TotalTickets, AvailableTickets, Bookings, Reservations,
                   WaitQueues, nextRes, nextBook, pend, Users, signup>>

\* db.mutex.Unlock() by the writer t, which goes on to the position next: the
\* readers blocked in RLock enter together
mutexUnlock(t, next) ==
    LET blocked == {r \in LockThreads : pc[r].at = "RLockWait"} IN
    /\ mutex' = [w |-> "", readers |-> blocked]
    /\ pc' = [r \in LockThreads |->
                 IF r = t THEN next
                 ELSE IF r \in blocked THEN [pc[r] EXCEPT !.at = "RLocked"]
                 ELSE pc[r]]

\* db.mutex.RUnlock() by the reader t, which returns from its method
mutexRUnlock(t) ==
    /\ mutex' = [mutex EXCEPT !.readers = @ \ {t}]
    /\ pc' = [pc EXCEPT ![t] = NotInCall]

\* the first call on db.mutex of each method: GetReservation starts with
\* cleanupExpiredReservations(), which takes the write lock
FirstLockCall(op) == IF op = "GetQueuePosition" THEN "RLock" ELSE "Lock"

\* a request goroutine enters a method
Invoke(t, op, userID) ==
    /\ pc[t] = NotInCall
    /\ pc' = [pc EXCEPT ![t] = [op |-> op, at |-> FirstLockCall(op),
                                user |-> userID]]
    /\ UNCHANGED <<TotalTickets, AvailableTickets, Bookings, Reservations,
                   WaitQueues, nextRes, nextBook, pend, Users, signup, mutex>>

\* EnqueueWait under the write lock, up to its deferred Unlock
EnqueueWaitLocked(t) ==
    /\ pc[t].op = "EnqueueWait" /\ pc[t].at = "Locked"
    /\ EnqueueWait(pc[t].user, "conf-1", 1)
    /\ mutexUnlock(t, NotInCall)

\* a ClaimNext that calls cleanupExpiredReservations(), which takes the write
\* lock, while it holds the write lock
ClaimNextLockedRelocks(t) ==
    /\ pc[t].op = "ClaimNext" /\ pc[t].at = "Locked"
    /\ pc' = [pc EXCEPT ![t].at = "Lock"]
    /\ UNCHANGED <<TotalTickets, AvailableTickets, Bookings, Reservations,
                   WaitQueues, nextRes, nextBook, pend, Users, signup, mutex>>

\* ClaimNext under the write lock, cleanupExpiredReservationsLocked() included,
\* up to its deferred Unlock
ClaimNextLocked(t) ==
    /\ pc[t].op = "ClaimNext" /\ pc[t].at = "Locked"
    /\ ClaimNext(pc[t].user, "conf-1")
    /\ mutexUnlock(t, NotInCall)

\* GetReservation, its call of cleanupExpiredReservations(): the purge under
\* the write lock and the deferred Unlock; the method goes on to RLock
cleanupExpiredReservationsLocking(t) ==
    /\ pc[t].op = "GetReservation" /\ pc[t].at = "Locked"
    /\ cleanupExpiredReservations
    /\ UNCHANGED pend
    /\ mutexUnlock(t, [pc[t] EXCEPT !.at = "RLock"])

\* GetReservation and GetQueuePosition under the read lock, up to the deferred
\* RUnlock: nothing is written
ReadRLocked(t) ==
    /\ pc[t].at = "RLocked"
    /\ mutexRUnlock(t)
    /\ UNCHANGED <<TotalTickets, AvailableTickets, Bookings, Reservations,
                   WaitQueues, nextRes, nextBook, pend, Users, signup>>

\* ---------------------------------------------------------------- behaviours
\* the entries held by all the queues together
RECURSIVE SumLen(_, _)
SumLen(queues, S) ==
    IF S = {} THEN 0
    ELSE LET c == CHOOSE d \in S : TRUE IN Len(queues[c]) + SumLen(queues, S \ {c})
QueuedEntries(queues) == SumLen(queues, ConferenceIDs)

\* the bounds of one run: ids handed out, queue entries held
InBounds ==
    /\ nextRes <= MaxReservations + 1
    /\ nextBook <= MaxBookings + 1
    /\ QueuedEntries(WaitQueues) <= MaxQueue

\* what an observed call returned; a call that is not observed clears it.
\* Either step is a whole method run as one critical section (or a clock
\* tick): db.mutex is free before and after it and no goroutine is left inside
\* a method
Returned(op, args, err, pos, ret) ==
    /\ last' = [op |-> op, args |-> args, err |-> err, pos |-> pos, ret |-> ret]
    /\ UNCHANGED <<mutex, pc>>
Unobserved ==
    /\ last' = NoCall
    /\ UNCHANGED <<mutex, pc>>

\* the conferences that reservation and queue requests name
HoldConfs == {"conf-1", UnknownConference}

\* the reservation ledger and the bookings; ConfirmReservation is observed
NextLedger ==
    \/ Tick(TickStep) /\ Unobserved
    \/ \E u \in UserIDs, c \in ConferenceIDs, n \in Counts :
          CreateBooking(u, c, n) /\ InBounds' /\ Unobserved
    \/ \E u \in UserIDs, c \in HoldConfs, n \in Counts :
          CreateReservation(u, c, n) /\ InBounds' /\ Unobserved
    \/ \E id \in 1..MaxReservations :
          /\ ConfirmReservation(id) /\ InBounds'
          /\ Returned("ConfirmReservation", <<id>>, ConfirmReservationErr(id), 0, {})
    \/ \E id \in 1..MaxReservations : CancelReservation(id) /\ Unobserved
    \/ \E u \in UserIDs : EnqueueWait(u, "conf-1", 1) /\ InBounds' /\ Unobserved

SpecLedger == Init /\ [][NextLedger]_vars

\* direct bookings competing with the holds of one conference; no call is
\* observed
NextBooking ==
    \/ Tick(TickStep) /\ Unobserved
    \/ \E u \in UserIDs, c \in ConferenceIDs, n \in Counts :
          CreateBooking(u, c, n) /\ InBounds' /\ Unobserved
    \/ \E u \in UserIDs, n \in Counts :
          CreateReservation(u, "conf-1", n) /\ InBounds' /\ Unobserved
    \/ \E id \in 1..MaxReservations :
          ConfirmReservation(id) /\ InBounds' /\ Unobserved

SpecBooking == Init /\ [][NextBooking]_vars

\* two users after the seat of the single-seat conference; ConfirmReservation
\* is observed
NextSeat ==
    \/ Tick(TickStep) /\ Unobserved
    \/ \E u \in UserIDs, n \in Counts :
          CreateReservation(u, "conf-2", n) /\ InBounds' /\ Unobserved
    \/ \E id \in 1..MaxReservations :
          /\ ConfirmReservation(id) /\ InBounds'
          /\ Returned("ConfirmReservation", <<id>>, ConfirmReservationErr(id), 0, {})
    \/ \E u \in UserIDs, n \in Counts :
          CreateBooking(u, "conf-2", n) /\ InBounds' /\ Unobserved

SpecSeat == Init /\ [][NextSeat]_vars

\* concurrent sign-up requests; CreateUser is observed
NextUsers ==
    \/ \E t \in SignupThreads, email \in Emails :
          CreateUserLookup(t, email) /\ Unobserved
    \/ \E t \in SignupThreads :
          /\ CreateUserStore(t)
          /\ Returned("CreateUser", <<signup[t].email>>,
                      CreateUserErr(signup[t].email), 0, {})

SpecUsers == Init /\ [][NextUsers]_vars

\* cancellation requests sent by any user for any reservation id;
\* CancelReservation is observed together with the sender of the request
NextCancel ==
    \/ Tick(TickStep) /\ Unobserved
    \/ \E u \in UserIDs :
          CreateBooking(u, "conf-2", 1) /\ InBounds' /\ Unobserved
    \/ \E u \in UserIDs, c \in HoldConfs, n \in Counts :
          CreateReservation(u, c, n) /\ InBounds' /\ Unobserved
    \/ EnqueueWait("u1", "conf-1", 1) /\ InBounds' /\ Unobserved
    \/ \E caller \in UserIDs, id \in 1..MaxReservations :
          /\ CancelReservationBy(caller, id)
          /\ Returned("CancelReservation", <<caller, id>>,
                      CancelReservationErr(id), 0, {})

SpecCancel == Init /\ [][NextCancel]_vars

\* the wait queue and the holds it competes with; ClaimNext is observed
QueueUsers == UserIDs
\* the counts queued for: every count on a seeded conference, one on the other
QueueCounts(conferenceID) == IF conferenceID \in Conferences THEN Counts ELSE {1}
NextQueue ==
    \/ Tick(TickStep) /\ Unobserved
    \/ \E u \in QueueUsers, c \in HoldConfs, n \in Counts :
          CreateReservation(u, c, n) /\ InBounds' /\ Unobserved
    \/ \E u \in QueueUsers, c \in HoldConfs : \E n \in QueueCounts(c) :
          EnqueueWait(u, c, n) /\ InBounds' /\ Unobserved
    \/ \E u \in QueueUsers, c \in HoldConfs :
          /\ ClaimNext(u, c) /\ InBounds'
          /\ Returned("ClaimNext", <<u, c>>, ClaimNextErr(u, c), 0, {})

SpecQueue == Init /\ [][NextQueue]_vars

\* three users queueing for one conference; ClaimNext is observed
FifoUsers == {"u1", "u2", "u3"}
NextFifo ==
    \/ Tick(TickStep) /\ Unobserved
    \/ \E u \in FifoUsers, n \in Counts :
          EnqueueWait(u, "conf-1", n) /\ InBounds' /\ Unobserved
    \/ \E u \in FifoUsers :
          /\ ClaimNext(u, "conf-1") /\ InBounds'
          /\ Returned("ClaimNext", <<u, "conf-1">>, ClaimNextErr(u, "conf-1"), 0, {})

SpecFifo == Init /\ [][NextFifo]_vars

\* three users queueing for one conference within one hold period (the clock
\* does not advance); EnqueueWait is observed
NextEnqueue ==
    \/ \E u \in FifoUsers, n \in Counts :
          /\ EnqueueWait(u, "conf-1", n) /\ InBounds'
          /\ Returned("EnqueueWait", <<u, "conf-1", n>>, "ok",
                      EnqueueWaitPos(u, "conf-1"), {})
    \/ \E u \in FifoUsers :
          ClaimNext(u, "conf-1") /\ InBounds' /\ Unobserved

SpecEnqueue == Init /\ [][NextEnqueue]_vars

\* every mutating operation and the lazy purge, with the clock advancing one
\* hold period at a time; direct bookings name the single-seat conference, holds
\* and queues the two-seat one; the error of ClaimNext is observed
NextAll ==
    \/ Tick(HoldDuration) /\ Unobserved
    \/ cleanupExpiredReservations /\ UNCHANGED pend /\ Unobserved
    \/ \E u \in UserIDs, c \in {"conf-2", UnknownConference}, n \in Counts :
          CreateBooking(u, c, n) /\ InBounds' /\ Unobserved
    \/ \E u \in UserIDs, c \in HoldConfs, n \in Counts :
          CreateReservation(u, c, n) /\ InBounds' /\ Unobserved
    \/ \E id \in 1..MaxReservations :
          ConfirmReservation(id) /\ InBounds' /\ Unobserved
    \/ \E id \in 1..MaxReservations : CancelReservation(id) /\ Unobserved
    \/ \E u \in UserIDs :
          EnqueueWait(u, "conf-1", 1) /\ InBounds' /\ Unobserved
    \/ \E u \in UserIDs, c \in HoldConfs :
          /\ ClaimNext(u, c) /\ InBounds'
          /\ Returned("ClaimNext", <<>>, ClaimNextErr(u, c), 0, {})

SpecAll == Init /\ [][NextAll]_vars

\* every mutating operation of the engine and the clock; ConfirmReservation is
\* observed
Next ==
    \/ Tick(TickStep) /\ Unobserved
    \/ \E u \in UserIDs, c \in HoldConfs, n \in Counts :
          CreateBooking(u, c, n) /\ InBounds' /\ Unobserved
    \/ \E u \in UserIDs, c \in HoldConfs, n \in Counts :
          CreateReservation(u, c, n) /\ InBounds' /\ Unobserved
    \/ \E id \in 1..MaxReservations :
          /\ ConfirmReservation(id) /\ InBounds'
          /\ Returned("ConfirmReservation", <<id>>, ConfirmReservationErr(id), 0, {})
    \/ \E id \in 1..MaxReservations : CancelReservation(id) /\ Unobserved
    \/ \E u \in UserIDs, c \in HoldConfs, n \in Counts :
          EnqueueWait(u, c, n) /\ InBounds' /\ Unobserved
    \/ \E u \in UserIDs, c \in HoldConfs :
          ClaimNext(u, c) /\ InBounds' /\ Unobserved

Spec == Init /\ [][Next]_vars

\* the two purge-then-read operations, observed, running concurrently with the
\* reservation ledger
NextRead ==
    \/ Tick(TickStep) /\ Unobserved
    \/ \E u \in UserIDs, c \in ConferenceIDs, n \in Counts :
          CreateReservation(u, c, n) /\ InBounds' /\ Unobserved
    \/ \E id \in 1..MaxReservations :
          ConfirmReservation(id) /\ InBounds' /\ Unobserved
    \/ \E id \in 1..MaxReservations : CancelReservation(id) /\ Unobserved
    \/ \E t \in Threads, id \in 1..MaxReservations :
          GetReservationPurge(t, id) /\ Unobserved
    \/ \E t \in Threads :
          /\ GetReservationRead(t)
          /\ Returned("GetReservation", <<pend[t].id>>, GetReservationErr(t), 0,
                      GetReservationRet(t))
    \/ \E t \in Threads, u \in UserIDs :
          GetUserReservationsPurge(t, u) /\ Unobserved
    \/ \E t \in Threads :
          /\ GetUserReservationsRead(t)
          /\ Returned("GetUserReservations", <<pend[t].user>>, "ok", 0,
                      GetUserReservationsRet(t))

SpecRead == Init /\ [][NextRead]_vars

\* request goroutines inside the methods, contending for db.mutex: queueing,
\* claiming, reading a queue position and GetReservation, with the clock
\* advancing one hold period at a time.  A user queues while ids for the holds
\* of all queued and queueing users are left.
EnqueueBudget ==
    nextRes + QueuedEntries(WaitQueues)
      + Cardinality({t \in LockThreads : pc[t].op = "EnqueueWait"})
      <= MaxReservations
\* the requests each goroutine serves: <<method, user>>
LockCalls(t) ==
    IF t = "t1" THEN {<<"EnqueueWait", "u1">>, <<"ClaimNext", "u1">>}
    ELSE IF t = "t2" THEN {<<"GetReservation", "u2">>, <<"ClaimNext", "u2">>,
                           <<"EnqueueWait", "u2">>}
    ELSE {<<"GetQueuePosition", "u2">>, <<"GetReservation", "u1">>}
NextLock ==
    \/ Tick(HoldDuration) /\ Unobserved
    \/ \E t \in LockThreads : \E call \in LockCalls(t) :
          /\ call[1] = "EnqueueWait" => EnqueueBudget
          /\ Invoke(t, call[1], call[2])
          /\ last' = NoCall
    \/ \E t \in LockThreads : mutexLock(t) /\ last' = NoCall
    \/ \E t \in LockThreads : mutexLocked(t) /\ last' = NoCall
    \/ \E t \in LockThreads : mutexRLock(t) /\ last' = NoCall
    \/ \E t \in LockThreads : EnqueueWaitLocked(t) /\ last' = NoCall
    \/ \E t \in LockThreads : ClaimNextLocked(t) /\ last' = NoCall
    \/ \E t \in LockThreads : cleanupExpiredReservationsLocking(t) /\ last' = NoCall
    \/ \E t \in LockThreads : ReadRLocked(t) /\ last' = NoCall

\* the steps of goroutine t inside a critical section or entering one for
\* reading
InsideStep(t) ==
    /\ \/ mutexLocked(t)
       \/ mutexRLock(t)
       \/ EnqueueWaitLocked(t)
       \/ ClaimNextLocked(t)
       \/ cleanupExpiredReservationsLocking(t)
       \/ ReadRLocked(t)
    /\ last' = NoCall

\* fair scheduling: a goroutine that can take a step inside a method takes it,
\* and a goroutine waiting in Lock is not overtaken for ever (sync.Mutex hands
\* the lock to a waiter that has starved)
FairLock ==
    \A t \in LockThreads :
        /\ SF_vars(mutexLock(t) /\ last' = NoCall)
        /\ WF_vars(InsideStep(t))

SpecLock == Init /\ [][NextLock]_vars /\ FairLock

\* confirmations and cancellations sent concurrently for any reservation id,
\* each one critical section, in every order.  last.ret keeps the calls that
\* have succeeded so far: <<method, reservation id, k>> for the k-th success of
\* the method on the id.
Succeeded(op, id) == {s \in last.ret : s[1] = op /\ s[2] = id}
Logged(op, id, err) ==
    /\ last' = [op |-> op, args |-> <<id>>, err |-> err, pos |-> 0,
                ret |-> IF err # "ok" THEN last.ret
                        ELSE last.ret \cup
                               {<<op, id, Cardinality(Succeeded(op, id)) + 1>>}]
    /\ UNCHANGED <<mutex, pc>>
NotLogged ==
    /\ last' = [NoCall EXCEPT !.ret = last.ret]
    /\ UNCHANGED <<mutex, pc>>
NextConfirm ==
    \/ Tick(TickStep) /\ NotLogged
    \/ \E u \in UserIDs, n \in Counts :
          CreateReservation(u, "conf-1", n) /\ InBounds' /\ NotLogged
    \/ \E id \in 1..MaxReservations :
          /\ ConfirmReservation(id) /\ InBounds'
          /\ Logged("ConfirmReservation", id, ConfirmReservationErr(id))
    \/ \E id \in 1..MaxReservations :
          /\ CancelReservation(id)
          /\ Logged("CancelReservation", id, CancelReservationErr(id))

SpecConfirm == Init /\ [][NextConfirm]_vars

\* the queue of the two-seat conference and every operation that runs beside
\* it: bookings, holds, confirmations, cancellations, the purge and the clock;
\* ClaimNext is observed
NextWait ==
    \/ Tick(HoldDuration) /\ Unobserved
    \/ cleanupExpiredReservations /\ UNCHANGED pend /\ Unobserved
    \/ CreateBooking("u1", "conf-1", 1) /\ InBounds' /\ Unobserved
    \/ \E u \in UserIDs :
          CreateReservation(u, "conf-1", 1) /\ InBounds' /\ Unobserved
    \/ \E id \in 1..MaxReservations :
          ConfirmReservation(id) /\ InBounds' /\ Unobserved
    \/ \E id \in 1..MaxReservations : CancelReservation(id) /\ Unobserved
    \/ \E u \in UserIDs, n \in Counts :
          EnqueueWait(u, "conf-1", n) /\ InBounds' /\ Unobserved
    \/ \E u \in UserIDs :
          /\ ClaimNext(u, "conf-1") /\ InBounds'
          /\ Returned("ClaimNext", <<u, "conf-1">>, ClaimNextErr(u, "conf-1"), 0, {})

SpecWait == Init /\ [][NextWait]_vars

\* ------------------------------------------------------------------- claims
\* the vocabulary of the specification: a reservation is Active while the
\* current time is strictly before its ExpiresAt; effective availability is the
\* stored availability minus the tickets of Active reservations
Active(r) == now < r.ExpiresAt
ActiveOn(conferenceID) ==
    {r \in Reservations : r.ConferenceID = conferenceID /\ Active(r)}
EffectiveAvailability(conferenceID) ==
    AvailableTickets[conferenceID] - SumTicketCount(ActiveOn(conferenceID))
BookingsOf(conferenceID) == {b \in Bookings : b.ConferenceID = conferenceID}

\* C1: for every conference, AvailableTickets equals TotalTickets minus the sum
\* of TicketsBooked over its bookings, and lies between 0 and TotalTickets.
C1_CapacityInvariant ==
    \A c \in Conferences :
        /\ AvailableTickets[c] = TotalTickets[c] - SumTicketsBooked(BookingsOf(c))
        /\ 0 <= AvailableTickets[c]
        /\ AvailableTickets[c] <= TotalTickets[c]

\* C2: for every user and conference there is at most one Active reservation.
C2_ReservationExclusivity ==
    \A u \in UserIDs, c \in ConferenceIDs :
        Cardinality({r \in Reservations :
                        r.UserID = u /\ r.ConferenceID = c /\ Active(r)}) <= 1

\* C3: for a user with no Active reservation on an existing conference,
\* CreateReservation fails with InsufficientInventory exactly when the requested
\* count exceeds AvailableTickets minus the tickets of Active reservations, and
\* succeeds otherwise.
C3_EffectiveAvailability ==
    \A u \in UserIDs, c \in Conferences, n \in Counts :
        ~(\E r \in Reservations : r.UserID = u /\ r.ConferenceID = c /\ Active(r))
        => /\ CreateReservationErr(u, c, n) = "InsufficientInventory"
                <=> n > EffectiveAvailability(c)
           /\ CreateReservationErr(u, c, n) = "ok"
                <=> n <= EffectiveAvailability(c)

\* C4: ConfirmReservation of a present reservation whose ExpiresAt is at or
\* before the current time (equality included) fails with Expired, removes the
\* reservation, creates no booking and does not change AvailableTickets.
C4_ConfirmAtOrAfterExpiry ==
    [][\A id \in 1..MaxReservations :
          (/\ ConfirmReservation(id)
           /\ \E r \in Lookup(Reservations, id) : now >= r.ExpiresAt)
          => /\ ConfirmReservationErr(id) = "Expired"
             /\ Reservations' = Reservations \ Lookup(Reservations, id)
             /\ Bookings' = Bookings
             /\ AvailableTickets' = AvailableTickets]_vars

\* C5: ConfirmReservation of an Active reservation succeeds and creates exactly
\* one booking with a fresh id, Status "confirmed" and the reservation's user,
\* conference, count and amount; lowers the conference's AvailableTickets by
\* exactly that count; removes the reservation; and changes nothing else: the
\* other reservations, the other conferences, the queues.
C5_ConfirmSuccess ==
    [][\A id \in 1..MaxReservations :
          (/\ ConfirmReservation(id)
           /\ \E r \in Lookup(Reservations, id) : Active(r))
          => \E r \in Lookup(Reservations, id) :
               /\ ConfirmReservationErr(id) = "ok"
               /\ \E b \in Bookings' \ Bookings :
                     /\ Bookings' = Bookings \cup {b}
                     /\ \A o \in Bookings : o.id # b.id
                     /\ b.Status = "confirmed"
                     /\ b.UserID = r.UserID
                     /\ b.ConferenceID = r.ConferenceID
                     /\ b.TicketsBooked = r.TicketCount
                     /\ b.TotalAmount = r.TotalAmount
               /\ AvailableTickets' =
                     [AvailableTickets EXCEPT ![r.ConferenceID] = @ - r.TicketCount]
               /\ Reservations' = Reservations \ {r}
               /\ WaitQueues' = WaitQueues
               /\ TotalTickets' = TotalTickets]_vars

\* a confirmation has just succeeded while another reservation was held, a
\* user was queueing and the other conference had a booking
C5_Witness ==
    /\ last.op = "ConfirmReservation" /\ last.err = "ok"
    /\ Reservations # {}
    /\ Len(WaitQueues["conf-1"]) > 0
    /\ \E b \in Bookings : b.ConferenceID = "conf-1"
    /\ \E b \in Bookings : b.ConferenceID = "conf-2"

\* C6: a reservation whose ExpiresAt is at or before the current time never
\* lowers the availability that CreateReservation and ClaimNext compare a
\* request with: both subtract the tickets of Active reservations only.
C6_ElapsedHoldsDoNotCount ==
    \A c \in Conferences :
        LET res == cleanupExpiredReservationsLocked(Reservations) IN
        /\ AvailableTickets[c] - reservedTickets(res, c) = EffectiveAvailability(c)
        /\ AvailableTickets[c] - reserved(res, c) = EffectiveAvailability(c)

\* C7: GetReservation and GetUserReservations purge and read at one instant:
\* what they return is Active at the moment of the return, GetReservation
\* reports NotFound exactly when it returns nothing, and a reservation that is
\* present and Active at the return is never left out.
C7_PurgeThenRead ==
    /\ last.op = "GetReservation"
       => /\ \A r \in last.ret : r.id = last.args[1] /\ Active(r)
          /\ last.err = "NotFound" <=> last.ret = {}
          /\ \A r \in Reservations :
                r.id = last.args[1] /\ Active(r) => r \in last.ret
    /\ last.op = "GetUserReservations"
       => /\ \A r \in last.ret : r.UserID = last.args[1] /\ Active(r)
          /\ \A r \in Reservations :
                r.UserID = last.args[1] /\ Active(r) => r \in last.ret

\* the caller's entry is the head of the conference's queue
AtHead(userID, conferenceID) ==
    /\ Len(WaitQueues[conferenceID]) >= 1
    /\ WaitQueues[conferenceID][1].UserID = userID

\* C8: ClaimNext by a caller who is not at the head of the conference's queue
\* (the queue is empty, or its head is another user) fails with NotYourTurn,
\* creates no reservation, and leaves the queues and AvailableTickets
\* unchanged.
C8_ClaimGating ==
    [][\A u \in UserIDs, c \in HoldConfs :
          /\ ~AtHead(u, c) => ClaimNextErr(u, c) = "NotYourTurn"
          /\ (ClaimNext(u, c) /\ ~AtHead(u, c))
               => /\ Reservations' \subseteq Reservations
                  /\ nextRes' = nextRes
                  /\ WaitQueues' = WaitQueues
                  /\ AvailableTickets' = AvailableTickets
                  /\ Bookings' = Bookings]_vars

\* a user queued behind another has just been refused
C8_Witness ==
    /\ last.op = "ClaimNext" /\ last.err = "NotYourTurn"
    /\ GetQueuePosition(WaitQueues, last.args[1], last.args[2]) = 2

\* C9: a ClaimNext by the head of the queue that fails leaves the queues
\* exactly as they were, the caller still at the head; and a claim by the head
\* succeeds whenever the conference exists and its effective availability
\* covers the head entry's count.
C9_FailedHeadClaim ==
    [][\A u \in UserIDs, c \in HoldConfs :
          (ClaimNext(u, c) /\ AtHead(u, c))
          => /\ ClaimNextErr(u, c) \in {"ok", "NotFound", "InsufficientInventory"}
             /\ ClaimNextErr(u, c) # "ok"
                  => /\ WaitQueues' = WaitQueues
                     /\ Reservations' \subseteq Reservations
                     /\ AvailableTickets' = AvailableTickets
             /\ ClaimNextErr(u, c) = "ok"
                  <=> /\ c \in Conferences
                      /\ WaitQueues[c][1].TicketCount <= EffectiveAvailability(c)]_vars

\* the head of the queue has just been refused for lack of seats and is still
\* the head
C9_Witness ==
    /\ last.op = "ClaimNext" /\ last.err = "InsufficientInventory"
    /\ AtHead(last.args[1], last.args[2])

\* the users queueing for a conference, in queue order
QueueUsersOf(queues, conferenceID) ==
    [i \in 1..Len(queues[conferenceID]) |-> queues[conferenceID][i].UserID]

\* C10: GetQueuePosition of the i-th entry of a queue is i; EnqueueWait of a
\* user who is not queued returns the queue's length plus one, puts the user
\* there and moves nobody else; a successful ClaimNext removes the head and
\* lowers the position of every remaining user by exactly one, so the order of
\* the remaining users is kept.
C10_QueueFairness ==
    [][/\ \A i \in 1..Len(WaitQueues["conf-1"]) :
            GetQueuePosition(WaitQueues, WaitQueues["conf-1"][i].UserID, "conf-1") = i
       /\ \A u \in FifoUsers, n \in Counts :
            (/\ EnqueueWait(u, "conf-1", n)
             /\ GetQueuePosition(WaitQueues, u, "conf-1") = 0)
            => /\ EnqueueWaitPos(u, "conf-1") = Len(WaitQueues["conf-1"]) + 1
               /\ GetQueuePosition(WaitQueues', u, "conf-1")
                     = Len(WaitQueues["conf-1"]) + 1
               /\ \A v \in FifoUsers \ {u} :
                     GetQueuePosition(WaitQueues', v, "conf-1")
                       = GetQueuePosition(WaitQueues, v, "conf-1")
       /\ \A u \in FifoUsers :
            (ClaimNext(u, "conf-1") /\ ClaimNextErr(u, "conf-1") = "ok")
            => /\ GetQueuePosition(WaitQueues', u, "conf-1") = 0
               /\ QueueUsersOf(WaitQueues', "conf-1")
                     = Tail(QueueUsersOf(WaitQueues, "conf-1"))
               /\ \A v \in FifoUsers \ {u} :
                     GetQueuePosition(WaitQueues, v, "conf-1") > 0
                     => GetQueuePosition(WaitQueues', v, "conf-1")
                          = GetQueuePosition(WaitQueues, v, "conf-1") - 1]_vars

\* the head of a queue of three has just claimed; the other two moved up to
\* positions 1 and 2
C10_Witness ==
    /\ last.op = "ClaimNext" /\ last.err = "ok"
    /\ Len(WaitQueues["conf-1"]) = 2
    /\ GetQueuePosition(WaitQueues, last.args[1], "conf-1") = 0

\* every user has at most one entry in every queue
OneEntryPerUser(queues) ==
    \A c \in ConferenceIDs :
        \A i, j \in 1..Len(queues[c]) :
            queues[c][i].UserID = queues[c][j].UserID => i = j

\* C11: every queue holds at most one entry per user; EnqueueWait by a user
\* who is already in the queue replaces the requested count of that entry,
\* returns the entry's position, and changes neither the length of the queue
\* nor the position of any entry.
C11_EnqueueDedupe ==
    [][/\ OneEntryPerUser(WaitQueues)
       /\ OneEntryPerUser(WaitQueues')
       /\ \A u \in FifoUsers, n \in Counts :
            (/\ EnqueueWait(u, "conf-1", n)
             /\ \E e \in 1..Len(WaitQueues["conf-1"]) :
                   WaitQueues["conf-1"][e].UserID = u)
            => LET q == WaitQueues["conf-1"]
                   p == WaitQueues'["conf-1"]
                   i == CHOOSE e \in 1..Len(q) : q[e].UserID = u
               IN /\ EnqueueWaitPos(u, "conf-1") = i
                  /\ Len(p) = Len(q)
                  /\ \A k \in 1..Len(q) :
                        /\ p[k].UserID = q[k].UserID
                        /\ p[k].TicketCount = IF k = i THEN n ELSE q[k].TicketCount
                  /\ \A c \in ConferenceIDs \ {"conf-1"} :
                        WaitQueues'[c] = WaitQueues[c]]_vars

\* the head of a queue of three has asked again and kept position 1, with the
\* count of the latest request
C11_Witness ==
    /\ last.op = "EnqueueWait" /\ last.pos = 1
    /\ Len(WaitQueues["conf-1"]) = 3
    /\ WaitQueues["conf-1"][1].UserID = last.args[1]
    /\ WaitQueues["conf-1"][1].TicketCount = last.args[3]

\* C12: a successful ClaimNext adds exactly one reservation, with a fresh id,
\* for the caller and the conference, with the count of the head entry and
\* ExpiresAt = now + the hold duration; removes exactly the head entry of that
\* conference's queue; takes away nothing but elapsed holds; and leaves
\* AvailableTickets and the bookings unchanged.
C12_ClaimSuccess ==
    [][\A u \in UserIDs, c \in HoldConfs :
          (ClaimNext(u, c) /\ ClaimNextErr(u, c) = "ok")
          => LET head == WaitQueues[c][1] IN
             /\ head.UserID = u
             /\ \E r \in Reservations' \ Reservations :
                   /\ Reservations' \ Reservations = {r}
                   /\ \A o \in Reservations : o.id # r.id
                   /\ r.UserID = u
                   /\ r.ConferenceID = c
                   /\ r.TicketCount = head.TicketCount
                   /\ r.TotalAmount = Price[c] * head.TicketCount
                   /\ r.ExpiresAt = now + HoldDuration
             /\ \A o \in Reservations \ Reservations' : now > o.ExpiresAt
             /\ WaitQueues' = [WaitQueues EXCEPT ![c] = Tail(WaitQueues[c])]
             /\ AvailableTickets' = AvailableTickets
             /\ Bookings' = Bookings]_vars

\* the head of a queue of two has just claimed the two seats it asked for; the
\* other user is still queued
C12_Witness ==
    /\ last.op = "ClaimNext" /\ last.err = "ok"
    /\ Len(WaitQueues[last.args[2]]) = 1
    /\ \E r \in Reservations :
          /\ r.UserID = last.args[1]
          /\ r.ConferenceID = last.args[2]
          /\ r.TicketCount = 2
          /\ r.ExpiresAt = now + HoldDuration

\* C13: CreateBooking fails with NotFound for an unknown conference and with
\* InsufficientInventory when the count exceeds AvailableTickets, and changes
\* nothing in either case; otherwise it succeeds and, in one step, lowers the
\* conference's AvailableTickets by exactly the count and adds exactly one
\* confirmed booking of that count for the user and the conference.
C13_CreateBooking ==
    [][\A u \in UserIDs, c \in ConferenceIDs, n \in Counts :
          LET err == CreateBookingErr(u, c, n) IN
          /\ err = "NotFound" <=> c \notin Conferences
          /\ err = "InsufficientInventory"
                <=> (c \in Conferences /\ n > AvailableTickets[c])
          /\ err = "ok" <=> (c \in Conferences /\ n <= AvailableTickets[c])
          /\ (CreateBooking(u, c, n) /\ err # "ok")
               => UNCHANGED <<TotalTickets, AvailableTickets, Bookings,
                              Reservations, WaitQueues>>
          /\ (CreateBooking(u, c, n) /\ err = "ok")
               => /\ AvailableTickets' =
                        [AvailableTickets EXCEPT ![c] = @ - n]
                  /\ \E b \in Bookings' \ Bookings :
                        /\ Bookings' = Bookings \cup {b}
                        /\ \A o \in Bookings : o.id # b.id
                        /\ b.Status = "confirmed"
                        /\ b.UserID = u
                        /\ b.ConferenceID = c
                        /\ b.TicketsBooked = n
                        /\ b.TotalAmount = Price[c] * n
                  /\ UNCHANGED <<TotalTickets, Reservations, WaitQueues>>]_vars

\* both seats of a conference were booked directly: no reservation was ever
\* created
C13_Witness ==
    /\ nextRes = 1
    /\ AvailableTickets["conf-1"] = 0
    /\ \E b \in Bookings : b.ConferenceID = "conf-1" /\ b.TicketsBooked = 2

\* C14: ConfirmReservation and CancelReservation of a present reservation
\* take it out of the ledger (confirmed, rejected as Expired, or cancelled);
\* an id that was issued and is no longer in the ledger never comes back, and
\* every later ConfirmReservation, CancelReservation or GetReservation on it
\* returns NotFound and changes no booking and no AvailableTickets;
\* GetUserReservations never returns it.
C14_RemovedStaysRemoved ==
    [][\A id \in 1..MaxReservations :
          /\ ((ConfirmReservation(id) \/ CancelReservation(id))
                /\ Lookup(Reservations, id) # {})
               => Lookup(Reservations', id) = {}
          /\ (id < nextRes /\ Lookup(Reservations, id) = {})
               => /\ Lookup(Reservations', id) = {}
                  /\ ConfirmReservationErr(id) = "NotFound"
                  /\ CancelReservationErr(id) = "NotFound"
                  /\ (ConfirmReservation(id) \/ CancelReservation(id))
                       => /\ Bookings' = Bookings
                          /\ AvailableTickets' = AvailableTickets
                  /\ \A t \in Threads :
                       /\ (GetReservationRead(t) /\ pend[t].id = id)
                            => /\ GetReservationErr(t) = "NotFound"
                               /\ GetReservationRet(t) = {}
                       /\ GetUserReservationsRead(t)
                            => \A r \in GetUserReservationsRet(t) : r.id # id]_vars

\* the only reservation created was confirmed, and a GetReservation on its id
\* has just returned NotFound
C14_Witness ==
    /\ last.op = "GetReservation" /\ last.err = "NotFound"
    /\ last.args = <<1>>
    /\ nextRes = 2
    /\ Bookings # {}

\* C15: CancelReservation fails with NotFound when the id is not in the
\* ledger and then changes nothing; otherwise it succeeds and removes exactly
\* that reservation, Active or past its expiry, leaving AvailableTickets of
\* every conference, the bookings, the queues and every other reservation
\* unchanged.
C15_CancelFrame ==
    [][\A id \in 1..MaxReservations :
          /\ CancelReservationErr(id) = "NotFound" <=> Lookup(Reservations, id) = {}
          /\ CancelReservationErr(id) = "ok" <=> Lookup(Reservations, id) # {}
          /\ (CancelReservation(id) /\ Lookup(Reservations, id) = {})
               => UNCHANGED <<TotalTickets, AvailableTickets, Bookings,
                              Reservations, WaitQueues>>
          /\ (CancelReservation(id) /\ Lookup(Reservations, id) # {})
               => /\ Reservations' = {r \in Reservations : r.id # id}
                  /\ Cardinality(Reservations') = Cardinality(Reservations) - 1
                  /\ UNCHANGED <<TotalTickets, AvailableTickets, Bookings,
                                 WaitQueues>>]_vars

\* a reservation has just been cancelled while an elapsed hold was in the
\* ledger, a user was queueing and a booking existed
C15_Witness ==
    /\ last.op = "CancelReservation" /\ last.err = "ok"
    /\ \E r \in Reservations : now > r.ExpiresAt
    /\ Len(WaitQueues["conf-1"]) > 0
    /\ Bookings # {}

\* C16: TotalTickets never changes, and AvailableTickets of a conference
\* changes only in a successful CreateBooking or a successful
\* ConfirmReservation for that conference, decreasing by the tickets of the
\* booking that the step adds; a step of CreateReservation, ClaimNext,
\* CancelReservation, EnqueueWait or the lazy purge, and every failed call,
\* leaves it unchanged.
C16_AvailabilityFrame ==
    [][/\ TotalTickets' = TotalTickets
       /\ \A c \in Conferences :
            AvailableTickets'[c] # AvailableTickets[c]
            => /\ \/ \E u \in UserIDs, n \in Counts :
                        CreateBookingErr(u, c, n) = "ok" /\ CreateBooking(u, c, n)
                  \/ \E r \in Reservations :
                        /\ r.ConferenceID = c
                        /\ ConfirmReservationErr(r.id) = "ok"
                        /\ ConfirmReservation(r.id)
               /\ \E b \in Bookings' \ Bookings :
                     /\ Bookings' = Bookings \cup {b}
                     /\ b.ConferenceID = c
                     /\ AvailableTickets'[c] = AvailableTickets[c] - b.TicketsBooked
               /\ \A d \in Conferences \ {c} :
                     AvailableTickets'[d] = AvailableTickets[d]
       /\ AvailableTickets' # AvailableTickets
            => /\ ~ cleanupExpiredReservations
               /\ \A id \in 1..MaxReservations :
                     /\ ~ CancelReservation(id)
                     /\ ConfirmReservationErr(id) # "ok" => ~ ConfirmReservation(id)
               /\ \A u \in UserIDs, c \in ConferenceIDs, n \in Counts :
                     /\ ~ CreateReservation(u, c, n)
                     /\ ~ ClaimNext(u, c)
                     /\ ~ EnqueueWait(u, c, n)
                     /\ CreateBookingErr(u, c, n) # "ok" => ~ CreateBooking(u, c, n)]_vars

\* seats of the two-seat conference were committed by a confirmation and the
\* seat of the other by a direct booking, while a hold and a queue entry exist
C16_Witness ==
    /\ \E b \in Bookings : b.ConferenceID = "conf-1"
    /\ AvailableTickets["conf-1"] < TotalTickets["conf-1"]
    /\ \E b \in Bookings : b.ConferenceID = "conf-2"
    /\ AvailableTickets["conf-2"] = 0
    /\ Reservations # {}
    /\ Len(WaitQueues["conf-1"]) > 0

\* the step changes nothing but the ledger, and takes out of the ledger only
\* reservations whose hold has elapsed
OnlyElapsedRemoved ==
    /\ UNCHANGED <<TotalTickets, AvailableTickets, Bookings, WaitQueues>>
    /\ Reservations' \subseteq Reservations
    /\ \A r \in Reservations \ Reservations' : now >= r.ExpiresAt

\* C17: every call returns success or one error kind of its operation, and a
\* CreateBooking, CreateReservation, ConfirmReservation, CancelReservation or
\* ClaimNext that returns an error changes no conference, booking or queue
\* and no reservation, except that reservations whose hold has elapsed may be
\* gone (a failed CreateBooking or CancelReservation removes none): a step
\* that does more than that is not a step of a failed call.
C17_FailedCallsChangeNothing ==
    [][/\ \A u \in UserIDs, c \in ConferenceIDs, n \in Counts :
            /\ CreateBookingErr(u, c, n)
                  \in {"ok", "NotFound", "InsufficientInventory"}
            /\ CreateReservationErr(u, c, n)
                  \in {"ok", "NotFound", "DuplicateActiveReservation",
                       "InsufficientInventory"}
       /\ \A u \in UserIDs, c \in ConferenceIDs :
            ClaimNextErr(u, c)
              \in {"ok", "NotYourTurn", "NotFound", "InsufficientInventory"}
       /\ \A id \in 1..MaxReservations :
            /\ ConfirmReservationErr(id) \in {"ok", "NotFound", "Expired"}
            /\ CancelReservationErr(id) \in {"ok", "NotFound"}
       /\ \/ OnlyElapsedRemoved
          \/ /\ \A u \in UserIDs, c \in ConferenceIDs, n \in Counts :
                  /\ ~ (CreateBookingErr(u, c, n) # "ok" /\ CreateBooking(u, c, n))
                  /\ ~ (/\ CreateReservationErr(u, c, n) # "ok"
                        /\ CreateReservation(u, c, n))
             /\ \A u \in UserIDs, c \in ConferenceIDs :
                  ~ (ClaimNextErr(u, c) # "ok" /\ ClaimNext(u, c))
             /\ \A id \in 1..MaxReservations :
                  /\ ~ (ConfirmReservationErr(id) # "ok" /\ ConfirmReservation(id))
                  /\ ~ (CancelReservationErr(id) # "ok" /\ CancelReservation(id))
       /\ \/ Reservations' = Reservations
          \/ /\ \A u \in UserIDs, c \in ConferenceIDs, n \in Counts :
                  ~ (CreateBookingErr(u, c, n) # "ok" /\ CreateBooking(u, c, n))
             /\ \A id \in 1..MaxReservations :
                  ~ (CancelReservationErr(id) # "ok" /\ CancelReservation(id))]_vars

\* the head of the queue has just been refused for lack of seats, while a
\* booking exists
C17_Witness ==
    /\ last.op = "ClaimNext" /\ last.err = "InsufficientInventory"
    /\ last.args = <<>>
    /\ Len(WaitQueues["conf-1"]) > 0
    /\ Bookings # {}

\* the reservation is the user's Active hold of the only seat of conf-2, which
\* is still unsold
HoldsLastSeat(r, userID) ==
    /\ r.UserID = userID /\ r.ConferenceID = "conf-2" /\ r.TicketCount = 1
    /\ Active(r)
    /\ TotalTickets["conf-2"] = 1 /\ AvailableTickets["conf-2"] = 1

\* C18: on the conference with TotalTickets = 1, a CreateReservation of 1 on
\* the untouched conference succeeds; while user A's hold of the seat is
\* Active, CreateReservation of 1 by another user B fails with
\* InsufficientInventory and ConfirmReservation of A's hold succeeds, takes
\* AvailableTickets from 1 to 0 and leaves B's CreateBooking of 1 failing with
\* InsufficientInventory.
C18_LastSeat ==
    [][/\ (Reservations = {} /\ AvailableTickets["conf-2"] = 1)
            => \A a \in UserIDs : CreateReservationErr(a, "conf-2", 1) = "ok"
       /\ \A a \in UserIDs, b \in UserIDs, r \in Reservations :
            (a # b /\ HoldsLastSeat(r, a))
            => /\ CreateReservationErr(b, "conf-2", 1) = "InsufficientInventory"
               /\ ConfirmReservationErr(r.id) = "ok"
               /\ ConfirmReservation(r.id)
                    => /\ AvailableTickets'["conf-2"] = 0
                       /\ \E k \in Bookings' :
                             k.UserID = a /\ k.ConferenceID = "conf-2"
                       /\ CreateBookingErr(b, "conf-2", 1)' = "InsufficientInventory"
                       /\ CreateReservationErr(b, "conf-2", 1)'
                             = "InsufficientInventory"]_vars

\* the hold of the last seat has just been confirmed: the seat is sold and no
\* hold is left
C18_Witness ==
    /\ last.op = "ConfirmReservation" /\ last.err = "ok"
    /\ AvailableTickets["conf-2"] = 0
    /\ Cardinality(Bookings) = 1
    /\ Reservations = {}

\* no two users of the set share a normalized email
NoSharedEmail(users) ==
    \A u, v \in users :
        NormalizeEmail(u.Email) = NormalizeEmail(v.Email) => u = v

\* C19: no two users share the same normalized (lower-cased,
\* whitespace-trimmed) email; CreateUser fails with DuplicateContact and adds
\* no user when the normalized email is that of an existing user, also when
\* sign-up requests for the same email run concurrently.
C19_EmailUniqueness ==
    [][/\ NoSharedEmail(Users)
       /\ NoSharedEmail(Users')
       /\ \A email \in Emails :
            (\E user \in Users :
                NormalizeEmail(user.Email) = NormalizeEmail(email))
            => /\ CreateUserErr(email) = "DuplicateContact"
               /\ CreateUser(email) => Users' = Users
       /\ \A email \in Emails :
            (/\ CreateUser(email)
             /\ ~ \E user \in Users :
                    NormalizeEmail(user.Email) = NormalizeEmail(email))
            => /\ CreateUserErr(email) = "ok"
               /\ \E user \in Users' \ Users :
                     /\ Users' = Users \cup {user}
                     /\ NormalizeEmail(user.Email) = NormalizeEmail(email)]_vars

\* a sign-up that found no user with its email was overtaken by a concurrent
\* sign-up for the same email, differently written, and has just been refused
C19_Witness ==
    /\ last.op = "CreateUser" /\ last.err = "DuplicateContact"
    /\ \E user \in Users :
          /\ user.Email # last.args[1]
          /\ user.Email = NormalizeEmail(last.args[1])

\* C20: a reservation that leaves the ledger in a step that adds no booking
\* was cancelled by a request of its own user or was no longer Active; a
\* cancellation sent by another user does not remove an Active reservation.
C20_OnlyHolderCancels ==
    [][/\ \A r \in Reservations :
            (Lookup(Reservations', r.id) = {} /\ Bookings' = Bookings)
            => \/ ~ Active(r)
               \/ /\ last'.op = "CancelReservation"
                  /\ last'.args = <<r.UserID, r.id>>
       /\ \A r \in Reservations :
            (/\ last'.op = "CancelReservation"
             /\ last'.args[2] = r.id
             /\ last'.args[1] # r.UserID
             /\ Active(r))
            => Lookup(Reservations', r.id) # {}]_vars

\* C21: the booking ledger is append-only under the request operations
\* (CreateBooking, CreateReservation, ConfirmReservation, CancelReservation,
\* EnqueueWait, ClaimNext, the purge) and the clock: every booking of the
\* ledger is still there after the step with the same id, user, conference,
\* count, amount and status, and no other booking carries its id.
\* (ResetDatabase, which empties db.Bookings, is called by no route and by no
\* other method, and is not one of these operations.)
C21_BookingsAppendOnly ==
    [][\A b \in Bookings :
          /\ b \in Bookings'
          /\ \A k \in Bookings' : k.id = b.id => k = b]_vars

\* the first booking is still in the ledger, unchanged in its id, after a later
\* booking and a successful claim from the queue
C21_Witness ==
    /\ last.op = "ClaimNext" /\ last.err = "ok"
    /\ nextBook = 3
    /\ \E b \in Bookings : b.id = 1 /\ b.Status = "confirmed"
    /\ \E b \in Bookings : b.id = 2
    /\ Reservations # {}

\* C22: a goroutine never waits for db.mutex while it holds it (the writer
\* slot or a read lock), the lock is held only by goroutines inside a critical
\* section, and under fair scheduling every method that was entered returns:
\* GetReservation, which takes the write lock and then the read lock, included.
C22_EveryCallReturns ==
    /\ [](\A t \in LockThreads :
            /\ mutex.w = t <=> pc[t].at \in {"LockWait", "Locked"}
            /\ t \in mutex.readers <=> pc[t].at = "RLocked")
    /\ \A t \in LockThreads : (pc[t] # NotInCall) ~> (pc[t] = NotInCall)

\* a writer has called Lock and waits for a reader that is inside, a third
\* goroutine is blocked in RLock behind the writer, and one of the two readers
\* is in the second section of GetReservation
C22_Witness ==
    \E w, r, b \in LockThreads :
        /\ pc[w].at = "LockWait"
        /\ pc[r].at = "RLocked"
        /\ pc[b].at = "RLockWait"
        /\ "GetReservation" \in {pc[r].op, pc[b].op}
        /\ Reservations # {}

\* the reservations of the user for the conference that are in the ledger
HeldBy(userID, conferenceID) ==
    {r \in Reservations : r.UserID = userID /\ r.ConferenceID = conferenceID}

\* C23: CreateReservation fails with DuplicateActiveReservation exactly while
\* the user has an Active reservation for the conference; once the user's
\* earlier hold is no longer Active (now >= ExpiresAt) and the count is within
\* the effective availability, the user's CreateReservation succeeds, and the
\* reservation it adds expires a full hold duration from now.
C23_RenewalAfterExpiry ==
    [][\A u \in UserIDs, c \in Conferences, n \in Counts :
          /\ CreateReservationErr(u, c, n) = "DuplicateActiveReservation"
               <=> \E r \in HeldBy(u, c) : Active(r)
          /\ (/\ HeldBy(u, c) # {}
              /\ \A r \in HeldBy(u, c) : ~ Active(r)
              /\ n <= EffectiveAvailability(c))
             => /\ CreateReservationErr(u, c, n) = "ok"
                /\ CreateReservation(u, c, n)
                     => \E r \in Reservations' \ Reservations :
                           /\ r.UserID = u /\ r.ConferenceID = c
                           /\ r.ExpiresAt = now + HoldDuration]_vars

\* C24: whatever the order of the ConfirmReservation and CancelReservation
\* calls on a reservation id, at most one call on the id succeeds (one
\* confirmation or one cancellation, never both, never two confirmations);
\* the bookings are as many as the successful confirmations; and
\* AvailableTickets changes only in the step of the first successful
\* confirmation of an id, by that reservation's count.
C24_OneBookingPerReservation ==
    [][/\ \A id \in 1..MaxReservations :
            /\ Cardinality(Succeeded("ConfirmReservation", id)) <= 1
            /\ Cardinality(Succeeded("ConfirmReservation", id)
                             \cup Succeeded("CancelReservation", id)) <= 1
       /\ Cardinality(Bookings)
            = Cardinality({s \in last.ret : s[1] = "ConfirmReservation"})
       /\ AvailableTickets' # AvailableTickets
            => \E r \in Reservations :
                  /\ last'.ret \ last.ret = {<<"ConfirmReservation", r.id, 1>>}
                  /\ AvailableTickets' =
                        [AvailableTickets EXCEPT ![r.ConferenceID] =
                                                    @ - r.TicketCount]]_vars

\* reservation 1 was confirmed and reservation 2 cancelled, and a cancellation
\* of the confirmed reservation has just been refused
C24_Witness ==
    /\ last.op = "CancelReservation" /\ last.err = "NotFound"
    /\ last.args = <<1>>
    /\ last.ret = {<<"ConfirmReservation", 1, 1>>, <<"CancelReservation", 2, 1>>}
    /\ Cardinality(Bookings) = 1

\* C25: in every step the users of a queue stay as they are, in their order,
\* or a user who was not queued is added at the back, or the head is removed
\* by a successful ClaimNext of the head's own user: no operation removes or
\* reorders entries otherwise.  A user queued behind the head is refused with
\* NotYourTurn, whatever the seats effectively available, and a claim by the
\* head for more than is effectively available fails and leaves the head in
\* place.
C25_OnlyOwnClaimLeaves ==
    [][\A c \in ConferenceIDs :
          LET before == QueueUsersOf(WaitQueues, c)
              after == QueueUsersOf(WaitQueues', c)
          IN
          /\ \/ after = before
             \/ /\ Len(after) = Len(before) + 1
                /\ SubSeq(after, 1, Len(before)) = before
                /\ \A i \in 1..Len(before) : before[i] # after[Len(after)]
             \/ /\ Len(before) > 0
                /\ after = Tail(before)
                /\ last'.op = "ClaimNext" /\ last'.err = "ok"
                /\ last'.args = <<before[1], c>>
          /\ \A u \in UserIDs :
                GetQueuePosition(WaitQueues, u, c) > 1
                => /\ ClaimNextErr(u, c) = "NotYourTurn"
                   /\ ClaimNext(u, c) => WaitQueues' = WaitQueues
          /\ \A u \in UserIDs :
                (/\ c \in Conferences
                 /\ AtHead(u, c)
                 /\ WaitQueues[c][1].TicketCount > EffectiveAvailability(c))
                => /\ ClaimNextErr(u, c) = "InsufficientInventory"
                   /\ ClaimNext(u, c) => WaitQueues' = WaitQueues]_vars

\* the head asks for two seats while one is effectively available; the user
\* behind it, who asks for one, has just been refused with NotYourTurn
C25_Witness ==
    /\ last.op = "ClaimNext" /\ last.err = "NotYourTurn"
    /\ Len(WaitQueues["conf-1"]) = 2
    /\ WaitQueues["conf-1"][1].TicketCount = 2
    /\ WaitQueues["conf-1"][2].UserID = last.args[1]
    /\ WaitQueues["conf-1"][2].TicketCount = 1
    /\ EffectiveAvailability("conf-1") = 1

\* the tickets of the conference's Active reservations after the step
ActiveTicketsAfter(conferenceID) ==
    SumTicketCount({r \in Reservations' :
                       r.ConferenceID = conferenceID /\ now < r.ExpiresAt})

\* C26: in the state right after a successful CreateReservation or a
\* successful ClaimNext on a conference, the tickets of the conference's
\* Active reservations, the new one included, are at most its
\* AvailableTickets, whatever bookings, holds and claims came before.
C26_HoldsWithinAvailability ==
    [][\A u \in UserIDs, c \in Conferences :
          /\ \A n \in Counts :
                (CreateReservationErr(u, c, n) = "ok" /\ CreateReservation(u, c, n))
                => /\ \E r \in Reservations' \ Reservations : r.TicketCount = n
                   /\ ActiveTicketsAfter(c) <= AvailableTickets'[c]
          /\ (ClaimNextErr(u, c) = "ok" /\ ClaimNext(u, c))
                => /\ \E r \in Reservations' \ Reservations :
                         r.TicketCount = WaitQueues[c][1].TicketCount
                   /\ ActiveTicketsAfter(c) <= AvailableTickets'[c]]_vars

\* the head of the queue has just been granted the last seat that no booking
\* and no other hold has taken: the Active holds add up to AvailableTickets
C26_Witness ==
    /\ last.op = "ClaimNext" /\ last.err = "ok"
    /\ Bookings # {}
    /\ Cardinality(ActiveOn("conf-1")) = 1
    /\ SumTicketCount(ActiveOn("conf-1")) = AvailableTickets["conf-1"]

\* C27: every operation classifies a reservation in the same way at every
\* instant, now = ExpiresAt included: a reservation that the purge keeps is
\* one that ConfirmReservation does not reject as expired, that the duplicate
\* check of CreateReservation takes as Active and that the reserved sum of
\* ClaimNext counts; and for every conference the reserved sum of
\* CreateReservation, the reserved sum of ClaimNext and the Reserved figure of
\* GetConferenceStats are the same number.
C27_ConsistentExpiry ==
    /\ \A r \in Reservations :
          LET kept == cleanupExpiredReservationsLocked({r}) = {r} IN
          /\ kept <=> ~ ConfirmExpired(r)
          /\ kept <=> HasActiveReservation({r}, r.UserID, r.ConferenceID)
          /\ kept <=> reserved({r}, r.ConferenceID) = r.TicketCount
    /\ \A c \in Conferences :
          LET res == cleanupExpiredReservationsLocked(Reservations) IN
          /\ reservedTickets(res, c) = reserved(res, c)
          /\ reserved(res, c) = GetConferenceStats[c].Reserved

====
